---- MODULE Spec2Model ----
(***************************************************************************)
(* Document numbering of the InvoiceCraft backend: the invoice and order   *)
(* form routers (create, next-number, update, delete), the branding        *)
(* settings that carry the tenant's prefixes, and the store they talk to.  *)
(* Strings are sequences of one-character strings, so that formatting and  *)
(* parsing of document numbers are computed and not assumed.               *)
(* The invoice, order form and purchase order routers share no table and   *)
(* no sequence, so a behaviour serves requests of one router, chosen in    *)
(* Init.                                                                   *)
(***************************************************************************)
EXTENDS Integers, Sequences, FiniteSets, TLC

\* ------------------------------------------------------------------ bounds
MaxReq == 2       \* requests served in one behaviour
MaxFmt == 1600    \* largest integer put through the formatting
MaxItems == 2     \* longest list of items put through the totals
MaxCharges == 2   \* longest list of additional charges
MaxCalls == 2     \* calls one caller makes with the same arguments

Requests == 1..MaxReq
Tenants == {"tA", "tB"}
\* the routers that number their documents through a sequence RPC
DocKinds == {"invoice", "orderForm"}
Kinds == DocKinds \cup {"purchaseOrder"}
Customers == {"cA", "cB"}

\* the tenants that open the branding page; the others keep the default prefixes
Configuring == {"tA"}

\* customer.user_id: the tenant that owns each customer row
CustomerOwner == [c \in Customers |-> IF c = "cA" THEN "tA" ELSE "tB"]

\* ----------------------------------------------------------------- strings
Digits == <<"0", "1", "2", "3", "4", "5", "6", "7", "8", "9">>

DigitSet == {Digits[i] : i \in 1..10}

DigitVal(ch) == (CHOOSE i \in 1..10 : Digits[i] = ch) - 1

RECURSIVE ToStr(_)
\* String(n) for a non-negative integer
ToStr(n) == IF n < 10 THEN <<Digits[n + 1]>>
            ELSE ToStr(n \div 10) \o <<Digits[(n % 10) + 1]>>

\* mutant: a padding that keeps only the last len characters
PadStartTruncating(s, len, ch) ==
    IF Len(s) >= len THEN SubSeq(s, Len(s) - len + 1, Len(s))
    ELSE [i \in 1..(len - Len(s)) |-> ch] \o s

\* String.prototype.padStart(len, ch): adds characters, never removes any
PadStart(s, len, ch) ==
    IF Len(s) >= len THEN s
    ELSE [i \in 1..(len - Len(s)) |-> ch] \o s

\* `${prefix}${String(nextNumber).padStart(3, '0')}`
FormatNumber(prefix, n) == prefix \o PadStart(ToStr(n), 3, "0")

RECURSIVE ToInt(_)
\* value of a non-empty sequence of decimal digits
ToInt(s) == IF Len(s) = 1 THEN DigitVal(s[1])
            ELSE ToInt(SubSeq(s, 1, Len(s) - 1)) * 10 + DigitVal(s[Len(s)])

\* the number is the prefix followed by one or more digits
HasSeqNumber(s, p) ==
    /\ Len(s) > Len(p)
    /\ SubSeq(s, 1, Len(p)) = p
    /\ \A i \in (Len(p) + 1)..Len(s) : s[i] \in DigitSet

SeqNumberOf(s, p) == ToInt(SubSeq(s, Len(p) + 1, Len(s)))

SetMax(S) == CHOOSE m \in S : \A x \in S : x <= m

\* ---------------------------------------------------------------- prefixes
INV == <<"I", "N", "V", "-">>
OFP == <<"O", "F", "-">>
CustomInv == <<"A", "-">>
CustomOf == <<"B", "-">>
POP == <<"P", "O", "-">>

DefaultPrefix(kind) == IF kind = "invoice" THEN INV ELSE IF kind = "orderForm" THEN OFP ELSE POP

\* 'PO-' + String(nextNum).padStart(2, '0')
PoNumber(n) == POP \o PadStart(ToStr(n), 2, "0")

\* positions where lastPoNumber.match(/PO-(\d+)/) can match
PoMatches(s) ==
    {i \in 1..Len(s) : i + 3 <= Len(s) /\ SubSeq(s, i, i + 2) = POP /\ s[i + 3] \in DigitSet}

\* the digits captured by the leftmost match: the longest run after 'PO-'
PoCaptured(s) ==
    LET i == CHOOSE j \in PoMatches(s) : \A k \in PoMatches(s) : j <= k
        e == CHOOSE j \in (i + 3)..Len(s) :
                 /\ \A k \in (i + 3)..j : s[k] \in DigitSet
                 /\ (j = Len(s) \/ s[j + 1] \notin DigitSet)
    IN  SubSeq(s, i + 3, e)

\* router.get('/next-po-number'): the number after the most recently created one
NextPoNumber(last) ==
    IF last.null \/ last.s = <<>> \/ PoMatches(last.s) = {} THEN PoNumber(1)
    ELSE PoNumber(ToInt(PoCaptured(last.s)) + 1)

\* a nullable text column: null, or the string s
NullField == [null |-> TRUE, s |-> <<>>]
Text(s) == [null |-> FALSE, s |-> s]

\* JavaScript truthiness of a nullable string
Truthy(f) == ~f.null /\ f.s # <<>>

NoRow == [exists |-> FALSE, invoicePrefix |-> NullField, orderFormPrefix |-> NullField]
Row(inv, ofp) == [exists |-> TRUE, invoicePrefix |-> inv, orderFormPrefix |-> ofp]

\* the values a saved settings row takes in the model
SavedRows == {Row(NullField, NullField), Row(Text(<<>>), Text(<<>>)),
              Row(Text(CustomInv), Text(CustomOf))}

PrefixField(row, kind) ==
    IF kind = "invoice" THEN row.invoicePrefix ELSE row.orderFormPrefix

\* mutant: the create path takes the stored prefix without the || default
CreatePrefixNoFallback(kind, row, err) ==
    IF err \/ ~row.exists THEN DefaultPrefix(kind)
    ELSE PrefixField(row, kind).s

\* router.post('/'): prefix = default; if (!(error || !settings)) prefix = settings.prefix || default
CreatePrefix(kind, row, err) ==
    IF err \/ ~row.exists THEN DefaultPrefix(kind)
    ELSE IF Truthy(PrefixField(row, kind)) THEN PrefixField(row, kind).s
         ELSE DefaultPrefix(kind)

\* router.get('/next-number'): prefix = default unless settings.prefix is truthy
NextNumberPrefix(kind, row, err) ==
    IF err \/ ~row.exists \/ ~Truthy(PrefixField(row, kind)) THEN DefaultPrefix(kind)
    ELSE PrefixField(row, kind).s

\* ------------------------------------------------------------------- state
VARIABLES
    kind,       \* the router under observation: "invoice" or "orderForm"
    settings,   \* branding_settings: tenant -> row
    docs,       \* the router's table (invoice or order_form): set of rows
    nextId,     \* next primary key
    req,        \* request handlers: request -> local state and the steps run so far
    fmt,        \* inputs and outputs of the formatting check
    calc        \* arguments and results of the totals calls

vars == <<kind, settings, docs, nextId, req, fmt, calc>>

NoBody == [given |-> FALSE, s |-> <<>>]
Body(s) == [given |-> TRUE, s |-> s]

IdleReq == [op |-> "none", user |-> "tA", pc |-> "idle",
            prefix |-> <<>>, nextNumber |-> 0, number |-> <<>>,
            target |-> 0, existing |-> <<>>,
            resp |-> 0, err |-> "none", created |-> 0,
            steps |-> <<>>]

\* a handler that has sent its response and returned
GoneReq == [IdleReq EXCEPT !.pc = "gone"]

NoFmt == [prefix |-> <<>>, n |-> 0, m |-> 0, outN |-> <<>>, outM |-> <<>>, done |-> FALSE]

\* ------------------------------------------------------ amounts and totals
RECURSIVE Norm(_), Pow100(_), ReduceItems(_, _, _), ReduceItemsFromRate(_, _, _)
RECURSIVE ChargesTotal(_, _, _, _), ChargesTotalRunning(_, _, _, _)
RECURSIVE ReducePoItems(_, _, _), ReducePoItemsByRate(_, _, _)

\* a number m / 100^e, kept with the least e: the handlers' amounts are whole
\* numbers and every division of the calculation is by 100
Norm(x) == IF x.e > 0 /\ x.m % 100 = 0 THEN Norm([m |-> x.m \div 100, e |-> x.e - 1]) ELSE x

Num(n) == [m |-> n, e |-> 0]

Pow100(k) == IF k = 0 THEN 1 ELSE 100 * Pow100(k - 1)

\* the numerator of x over 100^e, for e >= x.e
Over(x, e) == x.m * Pow100(e - x.e)

MaxOf(a, b) == IF a >= b THEN a ELSE b

\* a + b
Add(x, y) == LET e == MaxOf(x.e, y.e) IN Norm([m |-> Over(x, e) + Over(y, e), e |-> e])

\* a - b
Sub(x, y) == LET e == MaxOf(x.e, y.e) IN Norm([m |-> Over(x, e) - Over(y, e), e |-> e])

\* a * b
Mul(x, y) == Norm([m |-> x.m * y.m, e |-> x.e + y.e])

\* a / 100
Div100(x) == Norm([m |-> x.m, e |-> x.e + 1])

\* a > 0
Positive(x) == x.m > 0

\* mutant: the reduce starts from the first item's rate
ReduceItemsFromRate(items, i, sum) ==
    IF i > Len(items) THEN sum
    ELSE ReduceItemsFromRate(items, i + 1,
            IF i = 1 THEN items[i].rate ELSE Add(sum, Mul(items[i].quantity, items[i].rate)))

\* items.reduce((sum, item) => sum + item.quantity * item.rate, 0) from item i on
ReduceItems(items, i, sum) ==
    IF i > Len(items) THEN sum
    ELSE ReduceItems(items, i + 1, Add(sum, Mul(items[i].quantity, items[i].rate)))

\* mutant: the discount applies whenever its value is positive
DiscountAppliesAlways(discount) == Positive(discount.value)

\* discount.enabled && discount.value > 0
DiscountApplies(discount) == discount.enabled /\ Positive(discount.value)

\* mutant: a fixed discount is capped at the items subtotal
AppliedDiscountCapped(discount, mainItemsSubtotal) ==
    IF discount.type = "fixed"
    THEN (IF Positive(Sub(discount.value, mainItemsSubtotal)) THEN mainItemsSubtotal
          ELSE discount.value)
    ELSE IF discount.type = "percentage" THEN Div100(Mul(mainItemsSubtotal, discount.value))
    ELSE Num(0)

\* the discount of an applying discount: its value when fixed, the percentage of
\* the items subtotal when a percentage
AppliedDiscount(discount, mainItemsSubtotal) ==
    IF discount.type = "fixed" THEN discount.value
    ELSE IF discount.type = "percentage" THEN Div100(Mul(mainItemsSubtotal, discount.value))
    ELSE Num(0)

\* mutant: a discount of any type other than percentage is taken as fixed
DiscountAmountUntypedFixed(discount, mainItemsSubtotal) ==
    IF DiscountApplies(discount)
    THEN IF discount.type = "percentage" THEN AppliedDiscount(discount, mainItemsSubtotal)
         ELSE discount.value
    ELSE Num(0)

\* actualDiscountAmount
DiscountAmount(discount, mainItemsSubtotal) ==
    IF DiscountApplies(discount) THEN AppliedDiscount(discount, mainItemsSubtotal) ELSE Num(0)

\* mutant: a percentage charge is taken of the running total with the charges before it
ChargesTotalRunning(additionalCharges, i, total, subtotalAfterDiscount) ==
    IF i > Len(additionalCharges) THEN total
    ELSE ChargesTotalRunning(additionalCharges, i + 1,
            IF additionalCharges[i].valueType = "fixed"
            THEN Add(total, additionalCharges[i].value)
            ELSE IF additionalCharges[i].valueType = "percentage"
            THEN Add(total, Div100(Mul(Add(subtotalAfterDiscount, total), additionalCharges[i].value)))
            ELSE total,
            subtotalAfterDiscount)

\* for (const charge of additionalCharges): additionalChargesTotal from charge i on
ChargesTotal(additionalCharges, i, total, subtotalAfterDiscount) ==
    IF i > Len(additionalCharges) THEN total
    ELSE ChargesTotal(additionalCharges, i + 1,
            IF additionalCharges[i].valueType = "fixed"
            THEN Add(total, additionalCharges[i].value)
            ELSE IF additionalCharges[i].valueType = "percentage"
            THEN Add(total, Div100(Mul(subtotalAfterDiscount, additionalCharges[i].value)))
            ELSE total,
            subtotalAfterDiscount)

\* mutant: the tax is taken before the additional charges are added
SubtotalBeforeTaxNoCharges(subtotalAfterDiscount, additionalChargesTotal) ==
    subtotalAfterDiscount

\* subtotalBeforeTax
SubtotalBeforeTax(subtotalAfterDiscount, additionalChargesTotal) ==
    Add(subtotalAfterDiscount, additionalChargesTotal)

\* mutant: a negative grand total is raised to 0
GrandTotalClamped(subtotalBeforeTax, taxAmount) ==
    IF Add(subtotalBeforeTax, taxAmount).m < 0 THEN Num(0)
    ELSE Add(subtotalBeforeTax, taxAmount)

\* grandTotal
GrandTotal(subtotalBeforeTax, taxAmount) == Add(subtotalBeforeTax, taxAmount)

\* mutant: each percentage charge compounds on the charges before it
calculateOrderFormTotalCompounding(items, additionalCharges, taxRate, discount) ==
    LET mainItemsSubtotal == ReduceItems(items, 1, Num(0))
        actualDiscountAmount == DiscountAmount(discount, mainItemsSubtotal)
        subtotalAfterDiscount == Sub(mainItemsSubtotal, actualDiscountAmount)
        additionalChargesTotal == ChargesTotalRunning(additionalCharges, 1, Num(0), subtotalAfterDiscount)
        subtotalBeforeTax == SubtotalBeforeTax(subtotalAfterDiscount, additionalChargesTotal)
        taxAmount == Div100(Mul(subtotalBeforeTax, taxRate))
    IN  [subtotal |-> mainItemsSubtotal,
         discountAmount |-> actualDiscountAmount,
         taxAmount |-> taxAmount,
         grandTotal |-> GrandTotal(subtotalBeforeTax, taxAmount)]

calculateOrderFormTotal(items, additionalCharges, taxRate, discount) ==
    LET mainItemsSubtotal == ReduceItems(items, 1, Num(0))
        actualDiscountAmount == DiscountAmount(discount, mainItemsSubtotal)
        subtotalAfterDiscount == Sub(mainItemsSubtotal, actualDiscountAmount)
        additionalChargesTotal == ChargesTotal(additionalCharges, 1, Num(0), subtotalAfterDiscount)
        subtotalBeforeTax == SubtotalBeforeTax(subtotalAfterDiscount, additionalChargesTotal)
        taxAmount == Div100(Mul(subtotalBeforeTax, taxRate))
    IN  [subtotal |-> mainItemsSubtotal,
         discountAmount |-> actualDiscountAmount,
         taxAmount |-> taxAmount,
         grandTotal |-> GrandTotal(subtotalBeforeTax, taxAmount)]

\* mutant: the purchase order total is taken of the selling rate
ReducePoItemsByRate(items, i, sum) ==
    IF i > Len(items) THEN sum
    ELSE ReducePoItemsByRate(items, i + 1, Add(sum, Mul(items[i].quantity, items[i].rate)))

\* items.reduce((sum, item) => sum + item.quantity * item.procurementPrice, 0)
ReducePoItems(items, i, sum) ==
    IF i > Len(items) THEN sum
    ELSE ReducePoItems(items, i + 1, Add(sum, Mul(items[i].quantity, items[i].procurementPrice)))

calculatePurchaseOrderTotal(items) == [totalAmount |-> ReducePoItems(items, 1, Num(0))]

NoDiscount == [enabled |-> FALSE, type |-> "fixed", value |-> Num(0)]

\* no call made: the arguments a caller holds and the results it has received
NoCalc == [items |-> <<>>, additionalCharges |-> <<>>, taxRate |-> Num(0),
           discount |-> NoDiscount, results |-> <<>>, last |-> <<>>,
           between |-> FALSE, po |-> <<>>]

\* ------------------------------------------------------- the sequence RPCs
\* the integers carried by the documents of the tenant under the prefix
IssuedNumbers(user, prefix) ==
    {SeqNumberOf(d.number, prefix) :
        d \in {x \in docs : x.user = user /\ HasSeqNumber(x.number, prefix)}}

\* mutant: the lookup is not filtered by p_user_id
NextSequenceAllUsers(user, prefix) ==
    LET S == {SeqNumberOf(d.number, prefix) : d \in {x \in docs : HasSeqNumber(x.number, prefix)}}
    IN  IF S = {} THEN 1 ELSE SetMax(S) + 1

\* get_next_invoice_sequence / get_next_order_form_sequence(p_user_id, p_prefix):
\* reads the highest number of the tenant's documents and adds 1
NextSequence(user, prefix) ==
    LET S == IssuedNumbers(user, prefix)
    IN  IF S = {} THEN 1 ELSE SetMax(S) + 1

\* the unique constraint on invoiceNumber / orderFormNumber (error 23505)
UniqueViolation(number, selfId) ==
    \E d \in docs : d.number = number /\ d.id # selfId

\* a row of the table; issued is the number the row was created with
Doc(id, user, number) ==
    [id |-> id, user |-> user, number |-> number, issued |-> number,
     customerId |-> IF user = "tA" THEN "cA" ELSE "cB"]

\* the tables at the start: empty, or as two earlier creates of tenant tA left them
SeedStores(k) ==
    IF k = "purchaseOrder"
    THEN {{}, {Doc(1, "tA", PoNumber(1)), Doc(2, "tA", PoNumber(2))}}
    ELSE {{}, {Doc(1, "tA", FormatNumber(DefaultPrefix(k), 1)),
               Doc(2, "tA", FormatNumber(DefaultPrefix(k), 2))}}

Init ==
    /\ kind \in Kinds
    /\ settings = [t \in Tenants |-> NoRow]
    /\ docs \in SeedStores(kind)
    /\ nextId = Cardinality(docs) + 1
    /\ req = [r \in Requests |-> IdleReq]
    /\ fmt = NoFmt
    /\ calc = NoCalc

\* requests are taken in order of arrival
CanBegin(r) == req[r].pc = "idle" /\ \A q \in Requests : q < r => req[q].pc # "idle"

\* a request of the invoice or order form router can begin
CanBeginDoc(r) == kind \in DocKinds /\ CanBegin(r)

\* a request of the purchase order router can begin
CanBeginPo(r) == kind = "purchaseOrder" /\ CanBegin(r)

\* ------------------------------------------------------ branding settings
\* GET /api/branding-settings: creates the tenant's row when none exists
GetBranding(t) ==
    /\ ~settings[t].exists
    /\ settings' = [settings EXCEPT ![t] = Row(NullField, NullField)]
    /\ UNCHANGED <<kind, docs, nextId, req, fmt, calc>>

\* PUT /api/branding-settings: 404 without a row, else writes the prefixes
PutBranding(t, row) ==
    /\ settings[t].exists
    /\ settings[t] # row
    /\ settings' = [settings EXCEPT ![t] = row]
    /\ UNCHANGED <<kind, docs, nextId, req, fmt, calc>>

\* ------------------------------------------------------------ next-number
\* router.get('/next-number') up to the settings lookup
BeginNextNumber(r, user, err) ==
    /\ CanBeginDoc(r)
    /\ req' = [req EXCEPT ![r] =
                 [IdleReq EXCEPT !.op = "next", !.user = user,
                                 !.prefix = NextNumberPrefix(kind, settings[user], err),
                                 !.pc = "rpc"]]
    /\ UNCHANGED <<kind, settings, docs, nextId, fmt, calc>>

\* ----------------------------------------------------------------- create
\* router.post('/') up to the settings lookup
BeginCreate(r, user, err) ==
    /\ CanBeginDoc(r)
    /\ req' = [req EXCEPT ![r] =
                 [IdleReq EXCEPT !.op = "create", !.user = user,
                                 !.prefix = CreatePrefix(kind, settings[user], err),
                                 !.pc = "rpc"]]
    /\ UNCHANGED <<kind, settings, docs, nextId, fmt, calc>>

\* mutant: an rpcError is logged and the create goes on
RpcErrorIgnored(r) ==
    /\ req[r].pc = "rpc"
    /\ req' = [req EXCEPT ![r].err = "rpc",
                          ![r].steps = Append(req[r].steps, "allocate"),
                          ![r].resp = IF req[r].op = "next" THEN 500 ELSE 0,
                          ![r].number = req[r].prefix \o <<"n", "u", "l", "l">>,
                          ![r].pc = IF req[r].op = "next" THEN "done" ELSE "customer"]
    /\ UNCHANGED <<kind, settings, docs, nextId, fmt, calc>>

\* supabase.rpc(...) returns rpcError: 500 and return
RpcError(r) ==
    /\ req[r].pc = "rpc"
    /\ req' = [req EXCEPT ![r].resp = 500, ![r].err = "rpc", ![r].pc = "done",
                          ![r].steps = Append(req[r].steps, "allocate")]
    /\ UNCHANGED <<kind, settings, docs, nextId, fmt, calc>>

\* mutant: the RPC of next-number reserves the number it returns in the table
RpcOkReserving(r) ==
    /\ req[r].pc = "rpc"
    /\ LET n == NextSequence(req[r].user, req[r].prefix)
       IN  /\ req' = [req EXCEPT ![r].nextNumber = n,
                                 ![r].steps = Append(req[r].steps, "allocate"),
                                 ![r].number = FormatNumber(req[r].prefix, n),
                                 ![r].resp = IF req[r].op = "next" THEN 200 ELSE 0,
                                 ![r].pc = IF req[r].op = "next" THEN "done" ELSE "customer"]
           /\ IF req[r].op = "next" /\ ~UniqueViolation(FormatNumber(req[r].prefix, n), 0)
              THEN /\ docs' = docs \cup {Doc(nextId, req[r].user, FormatNumber(req[r].prefix, n))}
                   /\ nextId' = nextId + 1
              ELSE UNCHANGED <<docs, nextId>>
    /\ UNCHANGED <<kind, settings, fmt, calc>>

\* supabase.rpc(...) returns nextNumber; the handler formats the number
RpcOk(r) ==
    /\ req[r].pc = "rpc"
    /\ LET n == NextSequence(req[r].user, req[r].prefix)
       IN  req' = [req EXCEPT ![r].nextNumber = n,
                              ![r].steps = Append(req[r].steps, "allocate"),
                              ![r].number = FormatNumber(req[r].prefix, n),
                              ![r].resp = IF req[r].op = "next" THEN 200 ELSE 0,
                              ![r].pc = IF req[r].op = "next" THEN "done" ELSE "customer"]
    /\ UNCHANGED <<kind, settings, docs, nextId, fmt, calc>>

\* the customer the tenant owns
OwnCustomer(user) == CHOOSE c \in Customers : CustomerOwner[c] = user

\* mutant: the handler goes from the customer lookup to the write without the totals
LookupCustomerNoTotals(r, cust, err) ==
    /\ req[r].pc = "customer"
    /\ IF err \/ CustomerOwner[cust] # req[r].user
       THEN req' = [req EXCEPT ![r].resp = 400, ![r].err = "customer", ![r].pc = "done",
                               ![r].existing = <<>>, ![r].target = 0,
                               ![r].steps = Append(req[r].steps, "customer")]
       ELSE req' = [req EXCEPT ![r].pc = IF req[r].op = "create" THEN "insert" ELSE "write",
                               ![r].steps = Append(req[r].steps, "customer")]
    /\ UNCHANGED <<kind, settings, docs, nextId, fmt, calc>>

\* the customer lookup of create and update, for the customerId the request names
\* (for an update without one, the stored row's): 400 unless the tenant owns it
LookupCustomer(r, cust, err) ==
    /\ req[r].pc = "customer"
    /\ IF err \/ CustomerOwner[cust] # req[r].user
       THEN req' = [req EXCEPT ![r].resp = 400, ![r].err = "customer", ![r].pc = "done",
                               ![r].existing = <<>>, ![r].target = 0,
                               ![r].steps = Append(req[r].steps, "customer")]
       ELSE req' = [req EXCEPT ![r].pc = IF req[r].op = "create" THEN "insert" ELSE "write",
                               ![r].steps = req[r].steps \o <<"customer", "totals">>]
    /\ UNCHANGED <<kind, settings, docs, nextId, fmt, calc>>

NewDoc(r) == [id |-> nextId, user |-> req[r].user, number |-> req[r].number,
              issued |-> req[r].number, customerId |-> OwnCustomer(req[r].user)]

\* mutant: the table has no unique constraint on the document number
InsertUnconstrained(r, err) ==
    /\ req[r].pc = "insert"
    /\ IF err
       THEN /\ req' = [req EXCEPT ![r].resp = 500, ![r].err = "store", ![r].pc = "done",
                                  ![r].steps = Append(req[r].steps, "persist")]
            /\ UNCHANGED <<docs, nextId>>
       ELSE /\ docs' = docs \cup {NewDoc(r)}
            /\ nextId' = nextId + 1
            /\ req' = [req EXCEPT ![r].resp = 201, ![r].created = nextId, ![r].pc = "done",
                                  ![r].steps = Append(req[r].steps, "persist")]
    /\ UNCHANGED <<kind, settings, fmt, calc>>

\* supabase.from(table).insert([...]): 409 on 23505, 500 on another error, else 201
Insert(r, err) ==
    /\ req[r].pc = "insert"
    /\ IF err
       THEN /\ req' = [req EXCEPT ![r].resp = 500, ![r].err = "store", ![r].pc = "done",
                                  ![r].steps = Append(req[r].steps, "persist")]
            /\ UNCHANGED <<docs, nextId>>
       ELSE IF UniqueViolation(req[r].number, 0)
       THEN /\ req' = [req EXCEPT ![r].resp = 409, ![r].err = "23505", ![r].pc = "done",
                                  ![r].steps = Append(req[r].steps, "persist")]
            /\ UNCHANGED <<docs, nextId>>
       ELSE /\ docs' = docs \cup {NewDoc(r)}
            /\ nextId' = nextId + 1
            /\ req' = [req EXCEPT ![r].resp = 201, ![r].created = nextId, ![r].pc = "done",
                                  ![r].steps = Append(req[r].steps, "persist")]
    /\ UNCHANGED <<kind, settings, fmt, calc>>

\* ----------------------------------------------------------------- update
\* the document numbers an update request carries in its body
BodyNumbers == {NoBody, Body(<<"X">>)}

\* the po numbers an update request carries in its body
PoBodyNumbers == {NoBody, Body(<<"X">>), Body(<<"X", "P", "O", "-", "7", "b">>)}

DocIds == 1..(MaxReq + 2)

DocOf(user, id) == {d \in docs : d.user = user /\ d.id = id}

\* router.put('/:id') up to the fetch of the existing row: 404 when it is not the tenant's
BeginUpdate(r, user, id) ==
    /\ CanBeginDoc(r)
    /\ IF DocOf(user, id) = {}
       THEN req' = [req EXCEPT ![r] =
                      [IdleReq EXCEPT !.op = "update", !.user = user,
                                      !.resp = 404, !.err = "notfound",
                                      !.pc = "done"]]
       ELSE LET d == CHOOSE x \in DocOf(user, id) : TRUE
            IN  req' = [req EXCEPT ![r] =
                      [IdleReq EXCEPT !.op = "update", !.user = user,
                                      !.target = id, !.existing = d.number,
                                      !.pc = "customer"]]
    /\ UNCHANGED <<kind, settings, docs, nextId, fmt, calc>>

\* mutant: the body's number is stored without the ?? fallback
UpdatedNumberBodyOnly(r, body) == body.s

\* invoiceNumber ?? existingInvoice.invoiceNumber
UpdatedNumber(r, body) == IF body.given THEN body.s ELSE req[r].existing

\* supabase.from(table).update(...).eq(id).eq(user_id).single(): 409 on 23505, else 500 or 200
WriteUpdate(r, body, err) ==
    /\ req[r].pc = "write"
    /\ LET cur == DocOf(req[r].user, req[r].target)
       IN  IF err \/ cur = {}
           THEN /\ req' = [req EXCEPT ![r].resp = 500, ![r].err = "store", ![r].pc = "done",
                                       ![r].steps = Append(req[r].steps, "persist")]
                /\ UNCHANGED docs
           ELSE IF UniqueViolation(UpdatedNumber(r, body), req[r].target)
           THEN /\ req' = [req EXCEPT ![r].number = UpdatedNumber(r, body),
                                       ![r].steps = Append(req[r].steps, "persist"),
                                       ![r].resp = 409, ![r].err = "23505", ![r].pc = "done"]
                /\ UNCHANGED docs
           ELSE /\ docs' = (docs \ cur) \cup
                      {[d EXCEPT !.number = UpdatedNumber(r, body),
                                 !.customerId = OwnCustomer(req[r].user)] : d \in cur}
                /\ req' = [req EXCEPT ![r].number = UpdatedNumber(r, body),
                                       ![r].steps = Append(req[r].steps, "persist"),
                                       ![r].resp = 200, ![r].pc = "done"]
    /\ UNCHANGED <<kind, settings, nextId, fmt, calc>>

\* ----------------------------------------------------------------- delete
\* router.delete('/:id'): one delete filtered by id and user_id; existing keeps
\* the number the removed row carried, which the handler itself never reads
Delete(r, user, id, err) ==
    /\ CanBeginDoc(r)
    /\ IF err
       THEN /\ req' = [req EXCEPT ![r] =
                      [IdleReq EXCEPT !.op = "delete", !.user = user,
                                      !.resp = 500, !.err = "store",
                                      !.pc = "done"]]
            /\ UNCHANGED docs
       ELSE /\ docs' = docs \ DocOf(user, id)
            /\ req' = [req EXCEPT ![r] =
                      [IdleReq EXCEPT !.op = "delete", !.user = user,
                                      !.target = id, !.resp = 204, !.pc = "done",
                                      !.existing =
                                          IF DocOf(user, id) = {} THEN <<>>
                                          ELSE (CHOOSE d \in DocOf(user, id) : TRUE).number]]
    /\ UNCHANGED <<kind, settings, nextId, fmt, calc>>

\* --------------------------------------------------------- purchase orders
\* the po_number the database trigger gives a new purchase order
PoTriggerNumbers == {PoNumber(1), PoNumber(2), PoNumber(9), PoNumber(99)}

\* the po_number of the most recently created purchase order of any tenant
LastPoNumber ==
    IF docs = {} THEN NullField
    ELSE Text((CHOOSE d \in docs : \A x \in docs : x.id <= d.id).number)

\* router.get('/next-po-number'): one query, no tenant filter, no settings lookup
PoNextNumber(r, err) ==
    /\ CanBeginPo(r)
    /\ IF err
       THEN req' = [req EXCEPT ![r] =
                      [IdleReq EXCEPT !.op = "next", !.resp = 500, !.err = "store", !.pc = "done"]]
       ELSE req' = [req EXCEPT ![r] =
                      [IdleReq EXCEPT !.op = "next", !.number = NextPoNumber(LastPoNumber),
                                      !.resp = 200, !.pc = "done"]]
    /\ UNCHANGED <<kind, settings, docs, nextId, fmt, calc>>

\* router.post('/') of purchase orders: one insert, po_number set by the trigger
PoCreate(r, user, trig, err) ==
    /\ CanBeginPo(r)
    /\ IF err
       THEN /\ req' = [req EXCEPT ![r] =
                      [IdleReq EXCEPT !.op = "create", !.user = user,
                                      !.steps = <<"totals", "persist">>,
                                      !.resp = 500, !.err = "store", !.pc = "done"]]
            /\ UNCHANGED <<docs, nextId>>
       ELSE IF UniqueViolation(trig, 0)
       THEN /\ req' = [req EXCEPT ![r] =
                      [IdleReq EXCEPT !.op = "create", !.user = user, !.number = trig,
                                      !.steps = <<"totals", "persist">>,
                                      !.resp = 409, !.err = "23505", !.pc = "done"]]
            /\ UNCHANGED <<docs, nextId>>
       ELSE /\ docs' = docs \cup {Doc(nextId, user, trig)}
            /\ nextId' = nextId + 1
            /\ req' = [req EXCEPT ![r] =
                      [IdleReq EXCEPT !.op = "create", !.user = user, !.number = trig,
                                      !.steps = <<"totals", "persist">>,
                                      !.resp = 201, !.created = nextId, !.pc = "done"]]
    /\ UNCHANGED <<kind, settings, fmt, calc>>

\* router.put('/:id') of purchase orders up to the fetch of the existing row
PoBeginUpdate(r, user, id) ==
    /\ CanBeginPo(r)
    /\ IF DocOf(user, id) = {}
       THEN req' = [req EXCEPT ![r] =
                      [IdleReq EXCEPT !.op = "update", !.user = user,
                                      !.resp = 404, !.err = "notfound", !.pc = "done"]]
       ELSE LET d == CHOOSE x \in DocOf(user, id) : TRUE
            IN  req' = [req EXCEPT ![r] =
                      [IdleReq EXCEPT !.op = "update", !.user = user,
                                      !.target = id, !.existing = d.number,
                                      !.pc = "powrite"]]
    /\ UNCHANGED <<kind, settings, docs, nextId, fmt, calc>>

\* po_number: poNumber ?? existingPo.po_number, then the update: 409 on 23505, else 500 or 200
PoWriteUpdate(r, body, err) ==
    /\ req[r].pc = "powrite"
    /\ LET cur == DocOf(req[r].user, req[r].target)
           num == IF body.given THEN body.s ELSE req[r].existing
       IN  IF err \/ cur = {}
           THEN /\ req' = [req EXCEPT ![r].resp = 500, ![r].err = "store", ![r].pc = "done",
                                       ![r].steps = <<"totals", "persist">>]
                /\ UNCHANGED docs
           ELSE IF UniqueViolation(num, req[r].target)
           THEN /\ req' = [req EXCEPT ![r].number = num,
                                       ![r].steps = <<"totals", "persist">>,
                                       ![r].resp = 409, ![r].err = "23505", ![r].pc = "done"]
                /\ UNCHANGED docs
           ELSE /\ docs' = (docs \ cur) \cup {[d EXCEPT !.number = num] : d \in cur}
                /\ req' = [req EXCEPT ![r].number = num, ![r].resp = 200, ![r].pc = "done",
                                       ![r].steps = <<"totals", "persist">>]
    /\ UNCHANGED <<kind, settings, nextId, fmt, calc>>

\* router.delete('/:id') of purchase orders: one delete filtered by id and user_id
PoDelete(r, user, id, err) ==
    /\ CanBeginPo(r)
    /\ IF err
       THEN /\ req' = [req EXCEPT ![r] =
                      [IdleReq EXCEPT !.op = "delete", !.user = user,
                                      !.resp = 500, !.err = "store", !.pc = "done"]]
            /\ UNCHANGED docs
       ELSE /\ docs' = docs \ DocOf(user, id)
            /\ req' = [req EXCEPT ![r] =
                      [IdleReq EXCEPT !.op = "delete", !.user = user,
                                      !.target = id, !.resp = 204, !.pc = "done"]]
    /\ UNCHANGED <<kind, settings, nextId, fmt, calc>>

\* the response has been sent: the handler returns
Return(r) ==
    /\ req[r].pc = "done"
    /\ req' = [req EXCEPT ![r] = GoneReq]
    /\ UNCHANGED <<kind, settings, docs, nextId, fmt, calc>>

\* ------------------------------------------------------------------- Next
Next ==
    \/ \E t \in Configuring : GetBranding(t)
    \/ \E t \in Configuring, row \in SavedRows : PutBranding(t, row)
    \/ \E r \in Requests, t \in Tenants, e \in BOOLEAN : BeginNextNumber(r, t, e)
    \/ \E r \in Requests, t \in Tenants, e \in BOOLEAN : BeginCreate(r, t, e)
    \/ \E r \in Requests : RpcError(r)
    \/ \E r \in Requests : RpcOk(r)
    \/ \E r \in Requests, c \in Customers, e \in BOOLEAN : LookupCustomer(r, c, e)
    \/ \E r \in Requests, e \in BOOLEAN : Insert(r, e)
    \/ \E r \in Requests, t \in Tenants, id \in DocIds : BeginUpdate(r, t, id)
    \/ \E r \in Requests, b \in BodyNumbers, e \in BOOLEAN : WriteUpdate(r, b, e)
    \/ \E r \in Requests, t \in Tenants, id \in DocIds, e \in BOOLEAN : Delete(r, t, id, e)
    \/ \E r \in Requests, e \in BOOLEAN : PoNextNumber(r, e)
    \/ \E r \in Requests, t \in Tenants, n \in PoTriggerNumbers, e \in BOOLEAN : PoCreate(r, t, n, e)
    \/ \E r \in Requests, t \in Tenants, id \in DocIds : PoBeginUpdate(r, t, id)
    \/ \E r \in Requests, b \in PoBodyNumbers, e \in BOOLEAN : PoWriteUpdate(r, b, e)
    \/ \E r \in Requests, t \in Tenants, id \in DocIds, e \in BOOLEAN : PoDelete(r, t, id, e)
    \/ \E r \in Requests : Return(r)

Spec == Init /\ [][Next]_vars

\* ------------------------------------------------- formatting, on its own
FmtPrefixes == {INV, OFP, CustomInv}

\* integers whose formatted forms a wrong padding would confuse with that of n
FmtPartners(n) ==
    {m \in {n + 1, n + 10, n + 100, n + 1000, n % 10, n % 100, n % 1000} :
        m \in 1..MaxFmt /\ m # n}

FmtInputs ==
    UNION {{[prefix |-> p, n |-> n, m |-> m, outN |-> <<>>, outM |-> <<>>, done |-> FALSE] :
               p \in FmtPrefixes, m \in FmtPartners(n)} : n \in 1..MaxFmt}

InitFormat ==
    /\ kind = "invoice"
    /\ settings = [t \in Tenants |-> NoRow]
    /\ docs = {}
    /\ nextId = 1
    /\ req = [r \in Requests |-> IdleReq]
    /\ fmt \in FmtInputs
    /\ calc = NoCalc

\* the handlers' formatting applied to two allocated integers
FormatPair ==
    /\ ~fmt.done
    /\ fmt' = [fmt EXCEPT !.outN = FormatNumber(fmt.prefix, fmt.n),
                          !.outM = FormatNumber(fmt.prefix, fmt.m),
                          !.done = TRUE]
    /\ UNCHANGED <<kind, settings, docs, nextId, req, calc>>

NextFormat == FormatPair

SpecFormat == InitFormat /\ [][NextFormat]_vars

\* ------------------------------------------------ the totals, on their own
Quantities == {1, 2}

\* the selling rate and the procurement price of an item
Prices == {[rate |-> 50, procurementPrice |-> 7], [rate |-> 7, procurementPrice |-> 50]}

ItemChoices ==
    {[quantity |-> Num(q), rate |-> Num(p.rate), procurementPrice |-> Num(p.procurementPrice)] :
        q \in Quantities, p \in Prices}

ChargeChoices ==
    {[valueType |-> "fixed", value |-> Num(20)],
     [valueType |-> "percentage", value |-> Num(10)],
     [valueType |-> "percentage", value |-> Num(25)]}

TaxRates == {Num(-10), Num(0), Num(10)}

DiscountChoices ==
    {[enabled |-> en, type |-> ty, value |-> Num(v)] :
        en \in BOOLEAN, ty \in {"fixed", "percentage"}, v \in {-5, 0, 20, 150}}

\* the lists of at most n members of S
ListsUpTo(S, n) == UNION {[1..k -> S] : k \in 0..n}

InitTotals ==
    /\ kind = "invoice"
    /\ settings = [t \in Tenants |-> NoRow]
    /\ docs = {}
    /\ nextId = 1
    /\ req = [r \in Requests |-> IdleReq]
    /\ fmt = NoFmt
    /\ \E its \in ListsUpTo(ItemChoices, MaxItems), chs \in ListsUpTo(ChargeChoices, MaxCharges),
          tx \in TaxRates, dc \in DiscountChoices :
          calc = [NoCalc EXCEPT !.items = its, !.additionalCharges = chs,
                                !.taxRate = tx, !.discount = dc]

\* mutant: the function keeps its last result and returns it to the next call
CallTotalsMemo ==
    /\ Len(calc.results) < MaxCalls
    /\ Len(calc.results) = 1 => calc.between
    /\ LET out == IF calc.last # <<>> THEN calc.last[1]
                  ELSE calculateOrderFormTotal(calc.items, calc.additionalCharges,
                                               calc.taxRate, calc.discount)
       IN  calc' = [calc EXCEPT !.results = Append(calc.results, out), !.last = <<out>>]
    /\ UNCHANGED <<kind, settings, docs, nextId, req, fmt>>

\* a handler calls calculateOrderFormTotal with the arguments it holds
CallTotals ==
    /\ Len(calc.results) < MaxCalls
    /\ Len(calc.results) = 1 => calc.between
    /\ LET out == calculateOrderFormTotal(calc.items, calc.additionalCharges,
                                          calc.taxRate, calc.discount)
       IN  calc' = [calc EXCEPT !.results = Append(calc.results, out), !.last = <<out>>]
    /\ UNCHANGED <<kind, settings, docs, nextId, req, fmt>>

\* between two calls another handler may call the function with its own arguments
CallTotalsBetween(other) ==
    /\ Len(calc.results) = 1
    /\ ~calc.between
    /\ calc' = [calc EXCEPT !.between = TRUE,
                            !.last = IF other THEN
                                        <<calculateOrderFormTotal(
                                            <<[quantity |-> Num(2), rate |-> Num(50),
                                               procurementPrice |-> Num(7)]>>,
                                            <<[valueType |-> "fixed", value |-> Num(20)]>>,
                                            Num(10), NoDiscount)>>
                                     ELSE calc.last]
    /\ UNCHANGED <<kind, settings, docs, nextId, req, fmt>>

\* the purchase order handler calls calculatePurchaseOrderTotal with the items
CallPoTotal ==
    /\ Len(calc.results) = MaxCalls
    /\ calc.po = <<>>
    /\ calc' = [calc EXCEPT !.po = <<calculatePurchaseOrderTotal(calc.items)>>]
    /\ UNCHANGED <<kind, settings, docs, nextId, req, fmt>>

NextTotals ==
    \/ CallTotals
    \/ \E other \in BOOLEAN : CallTotalsBetween(other)
    \/ CallPoTotal

SpecTotals == InitTotals /\ [][NextTotals]_vars

\* ------------------------------------- the totals of untyped discounts and charges
\* the type the update handlers pass when neither the body nor the row has one
\* (discountType || existing.discountType || null), and a string that is neither
\* 'fixed' nor 'percentage'
NullType == "null"
OtherTypes == {NullType, "flat"}

UntypedChargeChoices ==
    {[valueType |-> "fixed", value |-> Num(20)],
     [valueType |-> "percentage", value |-> Num(10)]}
    \cup {[valueType |-> ty, value |-> Num(30)] : ty \in OtherTypes}

UntypedDiscountChoices ==
    {[enabled |-> TRUE, type |-> ty, value |-> Num(v)] :
        ty \in OtherTypes \cup {"fixed"}, v \in {20, 150}}

InitUntyped ==
    /\ kind = "invoice"
    /\ settings = [t \in Tenants |-> NoRow]
    /\ docs = {}
    /\ nextId = 1
    /\ req = [r \in Requests |-> IdleReq]
    /\ fmt = NoFmt
    /\ \E its \in ListsUpTo(ItemChoices, MaxItems) \ {<<>>},
          chs \in ListsUpTo(UntypedChargeChoices, MaxCharges),
          tx \in {Num(0), Num(10)}, dc \in UntypedDiscountChoices :
          calc = [NoCalc EXCEPT !.items = its, !.additionalCharges = chs,
                                !.taxRate = tx, !.discount = dc]

SpecUntyped == InitUntyped /\ [][NextTotals]_vars

\* ------------------------------------------ the stored amounts of a document
\* a value of a request body or of a column: undefined, null, or a value
Undef == [tag |-> "undefined"]
JsNull == [tag |-> "null"]
Val(v) == [tag |-> "value", v |-> v]

\* a ?? b
Coalesce(a, b) == IF a.tag = "value" THEN a ELSE b

\* a || b, for strings: undefined, null and '' are falsy
OrElse(a, b) == IF a.tag = "value" /\ a.v # "" THEN a ELSE b

\* parseFloat(x) || 0, for numbers, null and undefined
ParseFloatOr0(x) == IF x.tag = "value" THEN x.v ELSE Num(0)

\* an array, and the text JSON.stringify makes of it; a text that parses to
\* something else, or that does not parse
JsArray(l) == [type |-> "array", parses |-> "array", list |-> l]
JsonText(l) == [type |-> "string", parses |-> "array", list |-> l]
BrokenText == [type |-> "string", parses |-> "fails", list |-> <<>>]
EmptyText == [type |-> "string", parses |-> "empty", list |-> <<>>]

\* JSON.stringify(items)
Stringify(l) == JsonText(l)

\* safeParseJsonb(jsonbInput): [] for null and undefined, the parsed array of a
\* string ([] when it fails to parse or is no array), the array itself
safeParseJsonb(x) ==
    IF x.tag # "value" THEN <<>>
    ELSE IF x.v.type = "string"
    THEN IF x.v.parses = "array" THEN x.v.list ELSE <<>>
    ELSE IF x.v.type = "array" THEN x.v.list ELSE <<>>

\* safeParseJson(jsonString) of the purchase order router: the array itself, the
\* parsed array of a non-blank string, else []
safeParseJson(x) ==
    IF x.tag = "value" /\ x.v.type = "array" THEN x.v.list
    ELSE IF x.tag = "value" /\ x.v.type = "string" /\ x.v.parses # "empty"
    THEN IF x.v.parses = "array" THEN x.v.list ELSE <<>>
    ELSE <<>>

\* how the comparisons and products of calculateOrderFormTotal read a raw value
RawNum(x) == IF x.tag = "value" THEN x.v ELSE Num(0)
RawBool(x) == x.tag = "value" /\ x.v
RawType(x) == IF x.tag = "value" THEN x.v ELSE NullType

Item(q, rate, pp) == [quantity |-> Num(q), rate |-> Num(rate), procurementPrice |-> Num(pp)]
ItemsA == <<Item(1, 50, 7)>>
ItemsB == <<Item(2, 7, 50), Item(1, 50, 7)>>
Fixed20 == [valueType |-> "fixed", value |-> Num(20)]
Percent10 == [valueType |-> "percentage", value |-> Num(10)]

\* the amount fields of a request body
Fields(items, charges, tax, enabled, type, value) ==
    [items |-> items, additionalCharges |-> charges, taxRate |-> tax,
     discountEnabled |-> enabled, discountType |-> type, discountValue |-> value]

\* the bodies of POST /: every amount field is given
CreateBodies ==
    {Fields(Val(JsArray(ItemsA)), Val(JsArray(<<>>)), Val(Num(0)),
            Val(FALSE), Val(""), Val(Num(0))),
     Fields(Val(JsArray(ItemsB)), Val(JsArray(<<Fixed20, Percent10>>)), Val(Num(10)),
            Val(TRUE), Val("percentage"), Val(Num(20)))}

\* a body of PUT /:id without any amount field
EmptyBody == Fields(Undef, Undef, Undef, Undef, Undef, Undef)

\* the bodies of PUT /:id: fields given, omitted, null or ''
UpdateBodies ==
    {EmptyBody,
     [EmptyBody EXCEPT !.items = Val(JsArray(ItemsB))],
     [EmptyBody EXCEPT !.additionalCharges = Val(JsArray(<<Fixed20>>)),
                       !.taxRate = Val(Num(10))],
     [EmptyBody EXCEPT !.discountEnabled = Val(TRUE), !.discountValue = Val(Num(20))],
     [EmptyBody EXCEPT !.discountType = Val("fixed"), !.discountValue = Val(Num(150))],
     [EmptyBody EXCEPT !.taxRate = JsNull, !.discountType = Val(""),
                       !.discountEnabled = Val(FALSE)]}

\* the items of the bodies of the purchase order router
PoItemBodies ==
    {Undef, JsNull, Val(JsArray(<<>>)), Val(JsArray(ItemsA)),
     Val(JsonText(ItemsB)), Val(BrokenText), Val(EmptyText)}

\* calculateOrderFormTotal(items, additionalCharges, taxRate, {enabled, type, value})
\* of the create handler, on the raw fields of the body
CreateTotals(b) ==
    calculateOrderFormTotal(b.items.v.list, b.additionalCharges.v.list, RawNum(b.taxRate),
                            [enabled |-> RawBool(b.discountEnabled),
                             type |-> RawType(b.discountType),
                             value |-> RawNum(b.discountValue)])

\* invoiceToInsert / orderFormToInsert: the fields of the body and the totals
InsertedRow(id, user, number, b) ==
    [id |-> id, user |-> user, number |-> number, issued |-> number,
     customerId |-> IF user = "tA" THEN "cA" ELSE "cB",
     items |-> Val(Stringify(b.items.v.list)),
     additionalCharges |-> Val(Stringify(b.additionalCharges.v.list)),
     taxRate |-> b.taxRate,
     discountEnabled |-> b.discountEnabled,
     discountType |-> b.discountType,
     discountValue |-> b.discountValue,
     discountAmount |-> CreateTotals(b).discountAmount,
     subtotal |-> CreateTotals(b).subtotal,
     taxAmount |-> CreateTotals(b).taxAmount,
     total |-> CreateTotals(b).grandTotal]

\* the arguments of the update handler's call: the field of the body, or of the
\* row it fetched
UpdateItems(existing, b) ==
    IF b.items # Undef THEN b.items.v.list ELSE safeParseJsonb(existing.items)

UpdateCharges(existing, b) ==
    IF b.additionalCharges # Undef THEN b.additionalCharges.v.list
    ELSE safeParseJsonb(existing.additionalCharges)

UpdateType(existing, b) == OrElse(b.discountType, OrElse(existing.discountType, JsNull))

\* mutant: the totals of an update are taken of the fields of the body alone
UpdateTotalsOfBody(existing, b) ==
    calculateOrderFormTotal(
        IF b.items # Undef THEN b.items.v.list ELSE <<>>,
        IF b.additionalCharges # Undef THEN b.additionalCharges.v.list ELSE <<>>,
        ParseFloatOr0(b.taxRate),
        [enabled |-> RawBool(b.discountEnabled),
         type |-> RawType(b.discountType),
         value |-> ParseFloatOr0(b.discountValue)])

\* calculateOrderFormTotal(...) of the update handler
UpdateTotals(existing, b) ==
    calculateOrderFormTotal(
        UpdateItems(existing, b),
        UpdateCharges(existing, b),
        ParseFloatOr0(Coalesce(b.taxRate, existing.taxRate)),
        [enabled |-> RawBool(Coalesce(b.discountEnabled, existing.discountEnabled)),
         type |-> RawType(UpdateType(existing, b)),
         value |-> ParseFloatOr0(Coalesce(b.discountValue, existing.discountValue))])

\* invoiceToUpdate / orderFormToUpdate written over the row cur
UpdatedRow(cur, existing, b) ==
    [cur EXCEPT !.number = existing.number,
                !.items = Val(Stringify(UpdateItems(existing, b))),
                !.additionalCharges = Val(Stringify(UpdateCharges(existing, b))),
                !.taxRate = Coalesce(b.taxRate, existing.taxRate),
                !.discountEnabled = Coalesce(b.discountEnabled, existing.discountEnabled),
                !.discountType = UpdateType(existing, b),
                !.discountValue = Coalesce(b.discountValue, existing.discountValue),
                !.discountAmount = UpdateTotals(existing, b).discountAmount,
                !.subtotal = UpdateTotals(existing, b).subtotal,
                !.taxAmount = UpdateTotals(existing, b).taxAmount,
                !.total = UpdateTotals(existing, b).grandTotal]

\* purchaseOrderToInsert: the parsed items and their total
PoInsertedRow(id, user, number, items) ==
    [id |-> id, user |-> user, number |-> number, issued |-> number,
     customerId |-> IF user = "tA" THEN "cA" ELSE "cB",
     items |-> Val(JsArray(safeParseJson(items))),
     total_amount |-> calculatePurchaseOrderTotal(safeParseJson(items)).totalAmount]

\* itemsForCalculation
ItemsForCalculation(existing, items) ==
    IF Len(safeParseJson(items)) > 0 THEN safeParseJson(items)
    ELSE safeParseJson(existing.items)

\* purchaseOrderToUpdate written over the row cur
PoUpdatedRow(cur, existing, items) ==
    [cur EXCEPT !.number = existing.number,
                !.items = Val(JsArray(ItemsForCalculation(existing, items))),
                !.total_amount =
                    calculatePurchaseOrderTotal(ItemsForCalculation(existing, items)).totalAmount]

\* a request of this part: body is the body it came with, existing the row it fetched
StoreIdle == [op |-> "none", user |-> "tA", pc |-> "idle", number |-> <<>>, target |-> 0,
              body |-> EmptyBody, existing |-> <<>>, resp |-> 0, err |-> "none"]

StoreGone == [StoreIdle EXCEPT !.pc = "gone"]

\* the table at the start: empty, or as an earlier create of tenant tA left it
StoreSeeds(k) ==
    IF k = "purchaseOrder"
    THEN {{}, {PoInsertedRow(1, "tA", PoNumber(1), Val(JsArray(ItemsA)))}}
    ELSE {{}} \cup {{InsertedRow(1, "tA", FormatNumber(DefaultPrefix(k), 1), b)} : b \in CreateBodies}

InitStore ==
    /\ kind \in Kinds
    /\ settings = [t \in Tenants |-> NoRow]
    /\ docs \in StoreSeeds(kind)
    /\ nextId = Cardinality(docs) + 1
    /\ req = [r \in Requests |-> StoreIdle]
    /\ fmt = NoFmt
    /\ calc = NoCalc

\* router.post('/') up to the customer lookup: the prefix is the default one of
\* a tenant without settings, the number the one the RPC returns
StoreBeginCreate(r, b) ==
    /\ CanBeginDoc(r)
    /\ req' = [req EXCEPT ![r] =
                  [StoreIdle EXCEPT !.op = "create", !.body = b, !.pc = "insert",
                                    !.number = FormatNumber(CreatePrefix(kind, settings["tA"], FALSE),
                                                            NextSequence("tA", CreatePrefix(kind, settings["tA"], FALSE)))]]
    /\ UNCHANGED <<kind, settings, docs, nextId, fmt, calc>>

\* the totals and the insert: 409 on 23505, else 500 or 201
StoreInsert(r, err) ==
    /\ req[r].pc = "insert"
    /\ IF err
       THEN /\ req' = [req EXCEPT ![r].resp = 500, ![r].err = "store", ![r].pc = "done"]
            /\ UNCHANGED <<docs, nextId>>
       ELSE IF UniqueViolation(req[r].number, 0)
       THEN /\ req' = [req EXCEPT ![r].resp = 409, ![r].err = "23505", ![r].pc = "done"]
            /\ UNCHANGED <<docs, nextId>>
       ELSE /\ docs' = docs \cup {InsertedRow(nextId, req[r].user, req[r].number, req[r].body)}
            /\ nextId' = nextId + 1
            /\ req' = [req EXCEPT ![r].resp = 201, ![r].target = nextId, ![r].pc = "done"]
    /\ UNCHANGED <<kind, settings, fmt, calc>>

\* router.put('/:id') up to the fetch of the existing row
StoreBeginUpdate(r, id, b) ==
    /\ CanBeginDoc(r)
    /\ IF DocOf("tA", id) = {}
       THEN req' = [req EXCEPT ![r] =
                      [StoreIdle EXCEPT !.op = "update", !.body = b,
                                        !.resp = 404, !.err = "notfound", !.pc = "done"]]
       ELSE req' = [req EXCEPT ![r] =
                      [StoreIdle EXCEPT !.op = "update", !.body = b, !.target = id,
                                        !.existing = CHOOSE x \in DocOf("tA", id) : TRUE,
                                        !.pc = "write"]]
    /\ UNCHANGED <<kind, settings, docs, nextId, fmt, calc>>

\* the totals and the update of the row: 500 or 200
StoreWriteUpdate(r, err) ==
    /\ kind \in DocKinds
    /\ req[r].pc = "write"
    /\ LET cur == DocOf(req[r].user, req[r].target)
       IN  IF err \/ cur = {}
           THEN /\ req' = [req EXCEPT ![r].resp = 500, ![r].err = "store", ![r].pc = "done"]
                /\ UNCHANGED docs
           ELSE /\ docs' = (docs \ cur) \cup
                              {UpdatedRow(d, req[r].existing, req[r].body) : d \in cur}
                /\ req' = [req EXCEPT ![r].resp = 200, ![r].pc = "done"]
    /\ UNCHANGED <<kind, settings, nextId, fmt, calc>>

\* router.post('/') of purchase orders: the total of the parsed items and one insert
PoStoreCreate(r, items, trig, err) ==
    /\ CanBeginPo(r)
    /\ IF err
       THEN /\ req' = [req EXCEPT ![r] =
                      [StoreIdle EXCEPT !.op = "create", !.body = items,
                                        !.resp = 500, !.err = "store", !.pc = "done"]]
            /\ UNCHANGED <<docs, nextId>>
       ELSE IF UniqueViolation(trig, 0)
       THEN /\ req' = [req EXCEPT ![r] =
                      [StoreIdle EXCEPT !.op = "create", !.body = items, !.number = trig,
                                        !.resp = 409, !.err = "23505", !.pc = "done"]]
            /\ UNCHANGED <<docs, nextId>>
       ELSE /\ docs' = docs \cup {PoInsertedRow(nextId, "tA", trig, items)}
            /\ nextId' = nextId + 1
            /\ req' = [req EXCEPT ![r] =
                      [StoreIdle EXCEPT !.op = "create", !.body = items, !.number = trig,
                                        !.target = nextId, !.resp = 201, !.pc = "done"]]
    /\ UNCHANGED <<kind, settings, fmt, calc>>

\* router.put('/:id') of purchase orders up to the fetch of the existing row
PoStoreBeginUpdate(r, id, items) ==
    /\ CanBeginPo(r)
    /\ IF DocOf("tA", id) = {}
       THEN req' = [req EXCEPT ![r] =
                      [StoreIdle EXCEPT !.op = "update", !.body = items,
                                        !.resp = 404, !.err = "notfound", !.pc = "done"]]
       ELSE req' = [req EXCEPT ![r] =
                      [StoreIdle EXCEPT !.op = "update", !.body = items, !.target = id,
                                        !.existing = CHOOSE x \in DocOf("tA", id) : TRUE,
                                        !.pc = "powrite"]]
    /\ UNCHANGED <<kind, settings, docs, nextId, fmt, calc>>

\* itemsForCalculation, its total and the update of the row: 500 or 200
PoStoreWriteUpdate(r, err) ==
    /\ kind = "purchaseOrder"
    /\ req[r].pc = "powrite"
    /\ LET cur == DocOf(req[r].user, req[r].target)
       IN  IF err \/ cur = {}
           THEN /\ req' = [req EXCEPT ![r].resp = 500, ![r].err = "store", ![r].pc = "done"]
                /\ UNCHANGED docs
           ELSE /\ docs' = (docs \ cur) \cup
                              {PoUpdatedRow(d, req[r].existing, req[r].body) : d \in cur}
                /\ req' = [req EXCEPT ![r].resp = 200, ![r].pc = "done"]
    /\ UNCHANGED <<kind, settings, nextId, fmt, calc>>

\* the response has been sent: the handler returns
StoreReturn(r) ==
    /\ req[r].pc = "done"
    /\ req' = [req EXCEPT ![r] = StoreGone]
    /\ UNCHANGED <<kind, settings, docs, nextId, fmt, calc>>

\* the ids a request of this part names
StoreIds == 1..2

NextStore ==
    \/ \E r \in Requests, b \in CreateBodies : StoreBeginCreate(r, b)
    \/ \E r \in Requests, e \in BOOLEAN : StoreInsert(r, e)
    \/ \E r \in Requests, id \in StoreIds, b \in UpdateBodies : StoreBeginUpdate(r, id, b)
    \/ \E r \in Requests, e \in BOOLEAN : StoreWriteUpdate(r, e)
    \/ \E r \in Requests, i \in PoItemBodies, n \in {PoNumber(1), PoNumber(2)}, e \in BOOLEAN :
          PoStoreCreate(r, i, n, e)
    \/ \E r \in Requests, id \in StoreIds, i \in PoItemBodies : PoStoreBeginUpdate(r, id, i)
    \/ \E r \in Requests, e \in BOOLEAN : PoStoreWriteUpdate(r, e)
    \/ \E r \in Requests : StoreReturn(r)

SpecStore == InitStore /\ [][NextStore]_vars

\* ================================================================== claims
\* request r holds an integer the sequence RPC returned to it
Allocated(r) == req[r].nextNumber > 0

\* create request r holds an allocated integer and has not inserted yet
CreateInFlight(r) == req[r].op = "create" /\ req[r].pc \in {"customer", "insert"} /\ Allocated(r)

SameKey(r, q) == req[r].user = req[q].user /\ req[r].prefix = req[q].prefix

\* the prefixes a request can resolve
PrefixUniverse == {INV, OFP, CustomInv, CustomOf}

\* C1: two allocations of the next sequence number for the same (tenant, prefix)
\* return different integers, also when two create requests run concurrently
C1_DistinctAllocations ==
    \A r, q \in Requests :
        (r # q /\ CreateInFlight(r) /\ CreateInFlight(q) /\ SameKey(r, q))
            => req[r].nextNumber # req[q].nextNumber

\* C2: the integers returned to N concurrent allocations for one (tenant, prefix)
\* are exactly start+1 .. start+N for some start: distinct and without a gap
C2_ConcurrentRange ==
    \A t \in Tenants, p \in PrefixUniverse :
        LET A == {r \in Requests : CreateInFlight(r) /\ req[r].user = t /\ req[r].prefix = p}
            got == {req[r].nextNumber : r \in A}
        IN  A # {} => \E start \in 0..(MaxReq + 2) :
                          got = (start + 1)..(start + Cardinality(A))

\* C3 as stated: every persisted document carries the number the allocator
\* returned for it; no create and no update persists another number
C3_OnlyAllocatedNumbers == kind \in DocKinds => \A d \in docs : d.number = d.issued

\* the numbers a request body can supply to an update
SuppliedNumbers == {b.s : b \in {x \in BodyNumbers \cup PoBodyNumbers : x.given}}

\* every row after a step is unchanged in its number, or was inserted with the
\* number allocated in the inserting request, or was written by an update with
\* the number its body supplied or the number the update had fetched
PersistStep ==
    kind \in DocKinds =>
        \A d \in docs' :
          \/ \E d0 \in docs : d0.id = d.id /\ d0.number = d.number
          \/ \E r \in Requests :
                /\ req[r].pc = "insert" /\ Allocated(r)
                /\ d.id \notin {x.id : x \in docs}
                /\ d.user = req[r].user
                /\ d.number = FormatNumber(req[r].prefix, req[r].nextNumber)
          \/ \E r \in Requests, d0 \in docs :
                /\ req[r].pc = "write" /\ req[r].target = d.id
                /\ d0.id = d.id /\ d.issued = d0.issued
                /\ d.number \in SuppliedNumbers \cup {req[r].existing}

\* C3 as amended: a create inserts the document with the number allocated in
\* that request (resolved prefix and padded integer); an update stores the
\* number its body supplies, allocated or not, and without one the number it
\* fetched from the row
C3_CreateAllocatesUpdateMayRenumber == [][PersistStep]_vars

\* witness of C3: a created document was renumbered by an update with a body number
C3_Witness ==
    /\ kind \in DocKinds
    /\ \E d \in docs, r \in Requests :
          d.number = <<"X">> /\ d.issued # d.number
          /\ req[r].op = "update" /\ req[r].resp = 200 /\ req[r].target = d.id

\* a request whose sequence RPC failed has ended with a 500 and inserted nothing
RpcFailedEnded ==
    \A r \in Requests :
        req[r].err = "rpc" =>
            /\ req[r].pc = "done"
            /\ req[r].resp = 500
            /\ req[r].created = 0
            /\ \A d \in docs : d.number # req[r].number

\* the step in which the sequence RPC fails ends the request and leaves the table as it was
RpcFailureStep ==
    \A r \in Requests :
        (req[r].pc = "rpc" /\ req'[r].err = "rpc") =>
            (docs' = docs /\ nextId' = nextId /\ req'[r].pc = "done")

\* C4: when the sequence RPC returns an error the create request ends with an
\* error response and inserts no document: the table is as it was
C4_RpcErrorAborts == []RpcFailedEnded /\ [][RpcFailureStep]_vars

\* witness of C4: a create request failed at the sequence RPC
C4_Witness ==
    \E r \in Requests : req[r].op = "create" /\ req[r].err = "rpc" /\ req[r].pc = "done"

\* create request r obtained a number and failed before its insert succeeded
FailedAfterAllocation(r) ==
    /\ req[r].op = "create" /\ req[r].pc = "done" /\ Allocated(r)
    /\ req[r].err \in {"customer", "store", "23505"}

\* an allocation does not return the number of a create that failed after its own
NoReuseStep ==
    \A r, q \in Requests :
        (FailedAfterAllocation(r) /\ req[q].pc = "rpc" /\ req'[q].nextNumber > 0 /\ SameKey(r, q))
            => req'[q].nextNumber # req[r].nextNumber

\* C5: the number of a create that failed after its allocation is never returned
\* by a later allocation for the same (tenant, prefix)
C5_FailedCreateLeavesGap == [][NoReuseStep]_vars

\* request r of the create handler takes a step
CreateStep(r) ==
    /\ req'[r] # req[r]
    /\ req[r].op = "create" \/ (req[r].pc = "idle" /\ req'[r].op = "create")

\* a step of a create for (a, pa) leaves the next number of the other pairs as it was
ScopedStep ==
    kind \in DocKinds =>
        \A r \in Requests :
          CreateStep(r) =>
            LET a == IF req[r].pc = "idle" THEN req'[r].user ELSE req[r].user
                pa == IF req[r].pc = "idle" THEN req'[r].prefix ELSE req[r].prefix
            IN  \A t \in Tenants, p \in PrefixUniverse :
                    (t # a \/ p # pa) => NextSequence(t, p)' = NextSequence(t, p)

C7_FirstAllocations ==
    (docs = {} /\ nextId = 1) =>
        \A t \in Tenants, p \in PrefixUniverse :
            LET A == {r \in Requests : CreateInFlight(r) /\ req[r].user = t /\ req[r].prefix = p}
            IN  {req[r].nextNumber : r \in A} = 1..Cardinality(A)

\* no two rows of the table carry the same document number
UniqueNumbers == \A d, e \in docs : d.id # e.id => d.number # e.number

\* a 409 is the answer to a write that would duplicate a number, and changes nothing;
\* an insert that would duplicate a number is answered 409 (500 when the store
\* fails otherwise) and changes nothing
ConflictRejected ==
    \A r \in Requests :
        /\ (req[r].resp # 409 /\ req'[r].resp = 409) =>
              /\ docs' = docs
              /\ \E d \in docs : d.number = req'[r].number /\ d.id # req[r].target
        /\ (req[r].pc = "insert" /\ req'[r].pc = "done" /\ UniqueViolation(req[r].number, 0)) =>
              /\ docs' = docs
              /\ req'[r].resp \in {409, 500}

\* C8: no two persisted documents of one kind carry the same number, and a write
\* that would introduce a duplicate is rejected with a conflict and changes nothing
C8_UniqueNumbers == []UniqueNumbers /\ [][ConflictRejected]_vars

\* witness of C8: a create was answered with a conflict because a row carries its number
C8_Witness ==
    /\ kind \in DocKinds
    /\ \E r \in Requests, d \in docs :
          req[r].op = "create" /\ req[r].resp = 409 /\ d.number = req[r].number

\* an update was answered with a conflict because another row carries its number
UpdateConflictSeen ==
    /\ kind \in DocKinds
    /\ \E r \in Requests, d \in docs :
          req[r].op = "update" /\ req[r].resp = 409 /\ d.number = req[r].number

\* the decimal digits after the prefix of a formatted number
Suffix(out, prefix) == SubSeq(out, Len(prefix) + 1, Len(out))

\* C9: the document number is the prefix followed by the integer padded with
\* zeros to at least 3 digits, written in full beyond 3 digits, and distinct
\* integers give distinct numbers under one prefix
C9_Format ==
    fmt.done =>
        /\ SubSeq(fmt.outN, 1, Len(fmt.prefix)) = fmt.prefix
        /\ Len(Suffix(fmt.outN, fmt.prefix)) =
              (IF fmt.n < 1000 THEN 3 ELSE IF fmt.n < 10000 THEN 4 ELSE 5)
        /\ \A i \in 1..Len(Suffix(fmt.outN, fmt.prefix)) : Suffix(fmt.outN, fmt.prefix)[i] \in DigitSet
        /\ ToInt(Suffix(fmt.outN, fmt.prefix)) = fmt.n
        /\ fmt.outN # fmt.outM
        /\ (fmt.prefix = INV /\ fmt.n = 7) => fmt.outN = <<"I", "N", "V", "-", "0", "0", "7">>
        /\ (fmt.prefix = INV /\ fmt.n = 1500) => fmt.outN = <<"I", "N", "V", "-", "1", "5", "0", "0">>

\* witness of C9: 1500 and 500 have been formatted under INV-
C9_Witness == fmt.done /\ fmt.prefix = INV /\ fmt.n = 1500 /\ fmt.m = 500

\* the prefix the settings row configures for the kind, or the kind's default
ConfiguredOrDefault(k, row, err) ==
    IF ~err /\ row.exists /\ ~PrefixField(row, k).null /\ PrefixField(row, k).s # <<>>
    THEN PrefixField(row, k).s
    ELSE DefaultPrefix(k)

\* in the current state of the settings the create and the next-number handler
\* resolve the configured prefix or the default, and so the same one
PrefixesAgree ==
    \A t \in Tenants, k \in DocKinds, e \in BOOLEAN :
        /\ CreatePrefix(k, settings[t], e) = ConfiguredOrDefault(k, settings[t], e)
        /\ NextNumberPrefix(k, settings[t], e) = ConfiguredOrDefault(k, settings[t], e)

\* a handler that begins numbers under a prefix resolved from the settings row
BeginResolves ==
    \A r \in Requests :
        (req[r].pc = "idle" /\ req'[r].pc = "rpc") =>
            req'[r].prefix \in {ConfiguredOrDefault(kind, settings[req'[r].user], e) : e \in BOOLEAN}

\* the purchase order next number is under PO- whatever the settings hold
PoUnderDefault ==
    \A r \in Requests :
        (kind = "purchaseOrder" /\ req[r].op = "next" /\ req[r].resp = 200) =>
            (Len(req[r].number) >= 5 /\ SubSeq(req[r].number, 1, 3) = POP)

\* C10: numbering uses the tenant's configured prefix, or the kind's default
\* (INV-, OF-, PO-) when the row is missing, the lookup fails or the prefix is
\* absent or empty; next-number and create resolve the same prefix
C10_PrefixResolution == [](PrefixesAgree /\ PoUnderDefault) /\ [][BeginResolves]_vars

\* witness of C10: with an empty prefix saved, a create numbers under the default
C10_Witness ==
    \E r \in Requests :
        /\ kind \in DocKinds
        /\ req[r].op = "create" /\ req[r].pc = "rpc"
        /\ settings[req[r].user] = Row(Text(<<>>), Text(<<>>))
        /\ req[r].prefix = DefaultPrefix(kind)

\* C19: every path that produces a next document number takes it from an
\* atomic increment-and-return, so no two requests for the next number of one
\* (tenant, prefix), or of the purchase orders, are answered with the same number
C19_NextNumbersDiffer ==
    \A r, q \in Requests :
        (/\ r # q
         /\ req[r].op = "next" /\ req[r].resp = 200
         /\ req[q].op = "next" /\ req[q].resp = 200
         /\ SameKey(r, q))
            => req[r].number # req[q].number

\* s is an initial part of t
IsPrefix(s, t) == Len(s) <= Len(t) /\ s = SubSeq(t, 1, Len(s))

\* the steps of every create of an invoice or order form are an initial part of
\* order, and all of it once the document is inserted
CreateRunsIn(order) ==
    \A r \in Requests :
        (kind \in DocKinds /\ req[r].op = "create") =>
            /\ IsPrefix(req[r].steps, order)
            /\ req[r].created > 0 => req[r].steps = order

\* C20 as stated: a create resolves the customer, then invokes the allocator,
\* then computes the totals, then persists
C20_CustomerThenAllocate == CreateRunsIn(<<"customer", "allocate", "totals", "persist">>)

\* C20: a create invokes the allocator, then resolves the customer, then
\* computes the totals, then persists
C20_AllocateThenCustomer == CreateRunsIn(<<"allocate", "customer", "totals", "persist">>)

\* witness of C20: a create that ran all four steps and inserted its document
C20_Witness ==
    \E r \in Requests :
        /\ kind \in DocKinds
        /\ req[r].op = "create"
        /\ req[r].created > 0
        /\ req[r].steps = <<"allocate", "customer", "totals", "persist">>

\* the number of times step x occurs in the steps s
Times(s, x) == Cardinality({i \in 1..Len(s) : s[i] = x})

\* C21: a create whose insert is rejected for a duplicate number allocates a
\* new number and retries the insert once before it reports the failure
C21_RetryOnce ==
    \A r \in Requests :
        (kind \in DocKinds /\ req[r].op = "create" /\ req[r].pc = "done" /\ req[r].err = "23505") =>
            /\ Times(req[r].steps, "allocate") = 2
            /\ Times(req[r].steps, "persist") = 2

\* request r of next-number is answered in this step
GetStep(r) == req[r].op = "next" /\ req[r].pc = "rpc" /\ req'[r].resp = 200

\* an answered next-number request leaves the table and the next number of
\* every (tenant, prefix) as they were, and returns that next number
SequenceKept ==
    \A r \in Requests :
        (kind \in DocKinds /\ GetStep(r)) =>
            /\ docs' = docs
            /\ \A t \in Tenants, p \in PrefixUniverse : NextSequence(t, p)' = NextSequence(t, p)
            /\ req'[r].nextNumber = NextSequence(req[r].user, req[r].prefix)'

\* a create that allocates while the sequence stands where an answered
\* next-number request of the same (tenant, prefix) left it is given that number
CreateAfterGet ==
    \A r, q \in Requests :
        (/\ req[r].op = "create" /\ req[r].pc = "rpc" /\ req'[r].nextNumber > 0
         /\ req[q].op = "next" /\ req[q].resp = 200 /\ SameKey(r, q)
         /\ NextSequence(req[q].user, req[q].prefix) = req[q].nextNumber)
            => req'[r].number = req[q].number

GetThenCreate == SequenceKept /\ CreateAfterGet

\* C22: a next-number request leaves the numbering as it was, and the create of
\* the same tenant and prefix that follows it is assigned the number it returned
C22_GetLeavesSequence == [][GetThenCreate]_vars

\* witness of C22: a next-number request and the create after it, inserted
\* under the number the request returned
C22_Witness ==
    \E r, q \in Requests :
        /\ q < r
        /\ req[q].op = "next" /\ req[q].resp = 200
        /\ req[r].op = "create" /\ req[r].created > 0
        /\ SameKey(r, q)
        /\ req[r].number = req[q].number

\* no step lowers the next number of a (tenant, prefix), and a successful
\* allocation raises it by exactly 1
CounterStep ==
    kind \in DocKinds =>
        /\ \A t \in Tenants, p \in PrefixUniverse : NextSequence(t, p)' >= NextSequence(t, p)
        /\ \A r \in Requests :
              (req[r].pc = "rpc" /\ req'[r].nextNumber > 0) =>
                  NextSequence(req[r].user, req[r].prefix)' =
                      NextSequence(req[r].user, req[r].prefix) + 1

\* C23: the counter of every (tenant, prefix) never decreases over create,
\* next-number, update and delete, and every successful allocation adds 1 to it
C23_CounterMonotonic == [][CounterStep]_vars

\* the purchase orders of tenant t
PoOf(t) == {d \in docs : d.user = t}

\* a step that leaves the purchase orders of tenant tA as they were leaves the
\* number GET /next-po-number answers (to tA as to anyone) as it was
PoIsolatedStep ==
    (kind = "purchaseOrder" /\ PoOf("tA")' = PoOf("tA")) =>
        NextPoNumber(LastPoNumber)' = NextPoNumber(LastPoNumber)

\* C24: the next purchase order number offered to tenant A depends on A's own
\* purchase orders only: no create, update or delete of another tenant changes it
C24_PoTenantIsolation == [][PoIsolatedStep]_vars

\* request r of update or delete takes a step
UpdateOrDeleteStep(r) ==
    /\ req'[r] # req[r]
    /\ req'[r].op \in {"update", "delete"}

\* an update or delete step invokes no allocation and leaves every next number
\* as it was, and an update without a number in its body leaves the number of
\* its row as it was
FrameOfUpdateAndDelete ==
    kind \in DocKinds =>
        \A r \in Requests :
            UpdateOrDeleteStep(r) =>
                /\ Times(req'[r].steps, "allocate") = 0
                /\ \A t \in Tenants, p \in PrefixUniverse : NextSequence(t, p)' = NextSequence(t, p)
                /\ (req[r].pc = "write" /\ req'[r].resp = 200 /\ req'[r].number = req[r].existing) =>
                      \A d \in docs : d.id = req[r].target =>
                          \E e \in docs' : e.id = d.id /\ e.number = d.number

\* C27: update and delete never invoke the allocator, leave every sequence
\* counter unchanged, and an update without a document number in its body
\* leaves the stored number of its record unchanged
C27_UpdateDeleteFrame == [][FrameOfUpdateAndDelete]_vars

\* an allocation does not return the integer of a document deleted before
NoReissueStep ==
    \A r, q \in Requests :
        (/\ req[q].op = "delete" /\ req[q].resp = 204 /\ req[q].existing # <<>>
         /\ req[r].pc = "rpc" /\ req'[r].nextNumber > 0
         /\ req[r].user = req[q].user
         /\ HasSeqNumber(req[q].existing, req[r].prefix))
            => req'[r].nextNumber # SeqNumberOf(req[q].existing, req[r].prefix)

\* C28: the number of a deleted invoice or order form is never issued again to
\* an allocation or next-number request of the same tenant and prefix
C28_DeletedNumberNotReissued == [][NoReissueStep]_vars

\* ------------------------------------------------------ claims on the totals
\* the caller has received a result
Called == Len(calc.results) >= 1

\* the result of the caller's first call
Result == calc.results[1]

\* a < 0
Negative(x) == x.m < 0

\* x is exactly n / 100^k
Exactly(x, k, n) == x.e <= k /\ Over(x, k) = n

RECURSIVE WholeSubtotal(_, _)
\* the sum of quantity * rate over the first i items, in whole numbers
WholeSubtotal(items, i) ==
    IF i = 0 THEN 0
    ELSE WholeSubtotal(items, i - 1) + items[i].quantity.m * items[i].rate.m

\* C11: the returned subtotal is the sum over the items of quantity * rate,
\* whatever the discount and the charges, and 0 for the empty list
C11_Subtotal ==
    Called =>
        /\ Result.subtotal = Num(WholeSubtotal(calc.items, Len(calc.items)))
        /\ calc.items = <<>> => Result.subtotal = Num(0)

\* witness of C11: a result for two items, a discount that applies and a charge
C11_Witness ==
    /\ Called
    /\ Len(calc.items) = 2
    /\ Len(calc.additionalCharges) >= 1
    /\ calc.discount.enabled /\ calc.discount.value = Num(20)
    /\ Result.subtotal = Num(114)

\* discount.enabled is false or discount.value <= 0
DiscountOff == ~calc.discount.enabled \/ calc.discount.value.m <= 0

RECURSIVE RefCharges(_, _, _)
\* the sum over the first i charges, in 1/10000: a fixed charge its value, a
\* percentage charge value percent of the base, any other charge 0, the base
\* given in 1/100
RefCharges(charges, i, base) ==
    IF i = 0 THEN 0
    ELSE RefCharges(charges, i - 1, base)
         + (IF charges[i].valueType = "percentage" THEN base * charges[i].value.m
            ELSE IF charges[i].valueType = "fixed" THEN charges[i].value.m * 10000
            ELSE 0)

\* the amount before tax in 1/10000, for a discounted subtotal given in 1/100
RefBeforeTax(base) ==
    100 * base + RefCharges(calc.additionalCharges, Len(calc.additionalCharges), base)

\* the grand total in 1/1000000, for a discounted subtotal given in 1/100
RefGrandTotal(base) == 100 * RefBeforeTax(base) + RefBeforeTax(base) * calc.taxRate.m

\* C12: with the discount disabled or its value <= 0, discountAmount is 0 for
\* every type and value and the grand total is that of no discount at all
C12_DiscountOff ==
    (Called /\ DiscountOff) =>
        /\ Result.discountAmount = Num(0)
        /\ Exactly(Result.grandTotal, 3,
                   RefGrandTotal(100 * WholeSubtotal(calc.items, Len(calc.items))))

\* witness of C12: a disabled discount of 150 and a result for a non-empty list
C12_Witness ==
    /\ Called
    /\ ~calc.discount.enabled
    /\ calc.discount.value = Num(150)
    /\ calc.items # <<>>

\* an enabled discount of a positive value
DiscountOn == calc.discount.enabled /\ calc.discount.value.m > 0

\* C13: an enabled discount of positive value is the value itself when fixed,
\* also above the items subtotal, and subtotal * value / 100 when a percentage
C13_DiscountOn ==
    (Called /\ DiscountOn) =>
        /\ calc.discount.type = "fixed" => Result.discountAmount = calc.discount.value
        /\ calc.discount.type = "percentage" =>
              Exactly(Result.discountAmount, 1,
                      WholeSubtotal(calc.items, Len(calc.items)) * calc.discount.value.m)

\* witness of C13: a fixed discount of 150 on an items subtotal of 100
C13_Witness ==
    /\ Called
    /\ DiscountOn
    /\ calc.discount.type = "fixed"
    /\ calc.discount.value = Num(150)
    /\ Result.subtotal = Num(100)
    /\ Result.discountAmount = Num(150)

\* the additional charges of the result: what lies between the discounted
\* subtotal and the amount before tax
ChargesOf(res) == Sub(Sub(res.grandTotal, res.taxAmount), Sub(res.subtotal, res.discountAmount))

\* C14: every percentage charge contributes value percent of the discounted
\* items subtotal, and every fixed charge its value
C14_PercentageCharges ==
    Called =>
        /\ Sub(Result.subtotal, Result.discountAmount).e <= 1
        /\ Exactly(ChargesOf(Result), 2,
                   RefCharges(calc.additionalCharges, Len(calc.additionalCharges),
                              Over(Sub(Result.subtotal, Result.discountAmount), 1)))

\* witness of C14: subtotal 100, fixed discount 20, one charge of 10 percent: 8
C14_Witness ==
    /\ Called
    /\ Result.subtotal = Num(100)
    /\ calc.discount = [enabled |-> TRUE, type |-> "fixed", value |-> Num(20)]
    /\ calc.additionalCharges = <<[valueType |-> "percentage", value |-> Num(10)]>>
    /\ ChargesOf(Result) = Num(8)

\* the amount before tax of a result, in 1/10000
BeforeTaxOf(res) ==
    100 * Over(Sub(res.subtotal, res.discountAmount), 1)
    + RefCharges(calc.additionalCharges, Len(calc.additionalCharges),
                 Over(Sub(res.subtotal, res.discountAmount), 1))

\* C15: taxAmount is taxRate percent of subtotal - discount + charges, and
\* grandTotal is that amount plus taxAmount
C15_TaxAfterCharges ==
    Called =>
        /\ Sub(Result.subtotal, Result.discountAmount).e <= 1
        /\ Exactly(Result.taxAmount, 3, BeforeTaxOf(Result) * calc.taxRate.m)
        /\ Exactly(Result.grandTotal, 3,
                   100 * BeforeTaxOf(Result) + BeforeTaxOf(Result) * calc.taxRate.m)

\* witness of C15: subtotal 100, no discount, fixed charge 20, tax 10 percent: 12 and 132
C15_Witness ==
    /\ Called
    /\ Result.subtotal = Num(100)
    /\ Result.discountAmount = Num(0)
    /\ calc.additionalCharges = <<[valueType |-> "fixed", value |-> Num(20)]>>
    /\ calc.taxRate = Num(10)
    /\ Result.taxAmount = Num(12)
    /\ Result.grandTotal = Num(132)

RECURSIVE WholePoTotal(_, _)
\* the sum of quantity * procurementPrice over the first i items, in whole numbers
WholePoTotal(items, i) ==
    IF i = 0 THEN 0
    ELSE WholePoTotal(items, i - 1) + items[i].quantity.m * items[i].procurementPrice.m

\* the items with the procurement price as their unit rate
AtProcurementPrice(items) ==
    [i \in 1..Len(items) |-> [items[i] EXCEPT !.rate = items[i].procurementPrice]]

RefDiscount ==
    IF ~DiscountOn THEN 0
    ELSE IF calc.discount.type = "fixed" THEN 100 * calc.discount.value.m
    ELSE WholeSubtotal(calc.items, Len(calc.items)) * calc.discount.value.m

\* the discounted subtotal computed from the arguments, in 1/100
RefBase == 100 * WholeSubtotal(calc.items, Len(calc.items)) - RefDiscount

\* a fixed discount above the items subtotal, or a negative tax rate
BeyondZero ==
    \/ /\ DiscountOn
       /\ calc.discount.type = "fixed"
       /\ calc.discount.value.m > WholeSubtotal(calc.items, Len(calc.items))
    \/ calc.taxRate.m < 0

\* C17: no field is clamped: with a fixed discount above the subtotal or a
\* negative tax rate the call returns the exact taxAmount and grandTotal of its
\* arguments, negative when the arithmetic makes them so
C17_NoClamp ==
    (Called /\ BeyondZero) =>
        /\ Exactly(Result.taxAmount, 3, RefBeforeTax(RefBase) * calc.taxRate.m)
        /\ Exactly(Result.grandTotal, 3, RefGrandTotal(RefBase))
        /\ RefGrandTotal(RefBase) < 0 => Negative(Result.grandTotal)
        /\ RefBeforeTax(RefBase) * calc.taxRate.m < 0 => Negative(Result.taxAmount)

\* witness of C17: a fixed discount of 150 on a subtotal of 100 and a negative
\* grand total
C17_Witness ==
    /\ Called
    /\ Result.subtotal = Num(100)
    /\ calc.discount = [enabled |-> TRUE, type |-> "fixed", value |-> Num(150)]
    /\ calc.taxRate = Num(10)
    /\ Negative(Result.grandTotal)
    /\ Negative(Result.taxAmount)

\* the calls of one caller with the same arguments returned the same result
SameResults == \A i, j \in 1..Len(calc.results) : calc.results[i] = calc.results[j]

\* a call leaves the arguments it was given as they were
ArgumentsKept ==
    /\ calc'.items = calc.items
    /\ calc'.additionalCharges = calc.additionalCharges
    /\ calc'.taxRate = calc.taxRate
    /\ calc'.discount = calc.discount

Permuted(s, f) == [i \in 1..Len(s) |-> s[f[i]]]

\* the charges total of the list chs on the discounted subtotal of the call
ChargesTotalOf(chs) ==
    ChargesTotal(chs, 1, Num(0), Sub(Result.subtotal, Result.discountAmount))

Untyped(ty) == ty \notin {"fixed", "percentage"}

\* the charges of the call that are fixed or a percentage
TypedCharge(c) == ~Untyped(c.valueType)

\* C29: an enabled discount of positive value whose type is neither 'fixed' nor
\* 'percentage' gives discountAmount 0, and a charge whose valueType is neither
\* contributes 0 to the charges total
C29_UntypedCountsZero ==
    Called =>
        /\ (DiscountOn /\ Untyped(calc.discount.type)) =>
              /\ Result.discountAmount = Num(0)
              /\ Exactly(Result.grandTotal, 3,
                         RefGrandTotal(100 * WholeSubtotal(calc.items, Len(calc.items))))
        /\ ChargesTotalOf(calc.additionalCharges) =
              ChargesTotalOf(SelectSeq(calc.additionalCharges, TypedCharge))
        /\ Exactly(ChargesTotalOf(calc.additionalCharges), 2,
                   RefCharges(calc.additionalCharges, Len(calc.additionalCharges),
                              Over(Sub(Result.subtotal, Result.discountAmount), 1)))

\* witness of C29: a result for an enabled discount of 20 of the null type and
\* for a charge of 30 without a known valueType next to a fixed one
C29_Witness ==
    /\ Called
    /\ calc.discount.enabled /\ calc.discount.value = Num(20)
    /\ calc.discount.type = NullType
    /\ Len(calc.additionalCharges) = 2
    /\ calc.additionalCharges[1].valueType = "fixed"
    /\ Untyped(calc.additionalCharges[2].valueType)
    /\ calc.additionalCharges[2].value = Num(30)
    /\ ChargesTotalOf(calc.additionalCharges) = Num(20)

\* the totals of the stored items, charges, tax rate and discount fields of row d
TotalsOfStored(d) ==
    calculateOrderFormTotal(safeParseJsonb(d.items), safeParseJsonb(d.additionalCharges),
                            RawNum(d.taxRate),
                            [enabled |-> RawBool(d.discountEnabled),
                             type |-> RawType(d.discountType),
                             value |-> RawNum(d.discountValue)])

\* the stored totals of every row are those of its stored fields
StoredTotalsAgree ==
    kind \in DocKinds =>
        \A d \in docs :
            /\ d.subtotal = TotalsOfStored(d).subtotal
            /\ d.discountAmount = TotalsOfStored(d).discountAmount
            /\ d.taxAmount = TotalsOfStored(d).taxAmount
            /\ d.total = TotalsOfStored(d).grandTotal

\* the amount fields of a body and of a row
AmountFields ==
    {"items", "additionalCharges", "taxRate", "discountEnabled", "discountType", "discountValue"}

\* an update that succeeds in this step stores, for every field its body omits,
\* the value of the row it fetched
OmittedFromExisting ==
    \A r \in Requests :
        (kind \in DocKinds /\ req[r].pc = "write" /\ req'[r].resp = 200) =>
            \A d \in docs' :
                d.id = req[r].target =>
                    /\ \A f \in AmountFields \ {"items", "additionalCharges"} :
                          req[r].body[f] = Undef => d[f] = req[r].existing[f]
                    /\ \A f \in {"items", "additionalCharges"} :
                          req[r].body[f] = Undef =>
                              safeParseJsonb(d[f]) = safeParseJsonb(req[r].existing[f])
                    /\ d.total = TotalsOfStored(d).grandTotal

\* C25 as stated: after every successful create or update of an invoice or
\* order form the stored subtotal, discountAmount, taxAmount and total are those
\* of calculateOrderFormTotal on the stored items, charges, tax rate and discount
\* fields, and a field the update omits has the value of the existing record
C25_StoredTotals == []StoredTotalsAgree /\ [][OmittedFromExisting]_vars

\* as OmittedFromExisting, but an omitted discountType is stored as the fetched
\* one when that is a non-empty string, and as null otherwise
OmittedFromFetched ==
    \A r \in Requests :
        (kind \in DocKinds /\ req[r].pc = "write" /\ req'[r].resp = 200) =>
            \A d \in docs' :
                d.id = req[r].target =>
                    /\ \A f \in AmountFields \ {"items", "additionalCharges", "discountType"} :
                          req[r].body[f] = Undef => d[f] = req[r].existing[f]
                    /\ \A f \in {"items", "additionalCharges"} :
                          req[r].body[f] = Undef =>
                              safeParseJsonb(d[f]) = safeParseJsonb(req[r].existing[f])
                    /\ req[r].body.discountType = Undef =>
                          /\ d.discountType \in {req[r].existing.discountType, JsNull}
                          /\ d.discountType = JsNull =>
                                req[r].existing.discountType \in {Undef, JsNull, Val("")}
                          /\ TotalsOfStored(d) =
                                TotalsOfStored([d EXCEPT !.discountType = req[r].existing.discountType])
                    /\ d.total = TotalsOfStored(d).grandTotal

\* C25, amended: the stored totals are those of calculateOrderFormTotal on the
\* stored fields, and a field the update omits has the value of the fetched
\* record, an empty discountType being stored as null with the same totals
C25_StoredTotalsFetched == []StoredTotalsAgree /\ [][OmittedFromFetched]_vars

\* witness of C25: an update with a tax rate and without items or discount type
\* has succeeded on a row fetched with an empty discountType, which is now null,
\* while another update of the row is pending
C25_Witness ==
    \E r, q \in Requests :
        /\ kind \in DocKinds
        /\ req[r].op = "update" /\ req[r].resp = 200
        /\ req[r].body.items = Undef /\ req[r].body.discountType = Undef
        /\ req[r].body.taxRate = Val(Num(10))
        /\ req[r].existing.discountType = Val("")
        /\ req[q].op = "update" /\ req[q].pc = "write"
        /\ \E d \in docs :
              /\ d.id = req[r].target
              /\ d.discountType = JsNull
              /\ safeParseJsonb(d.items) = safeParseJsonb(req[r].existing.items)
              /\ Positive(d.taxAmount)

\* the body of a purchase order update has no items, or an empty list of them
NoItemsGiven(items) == items = Undef \/ items = Val(JsArray(<<>>))

\* a purchase order update without items leaves the stored items as they are
PoItemsKept ==
    \A r \in Requests :
        (kind = "purchaseOrder" /\ req[r].pc = "powrite" /\ req'[r].resp = 200
         /\ NoItemsGiven(req[r].body)) =>
            \A d \in docs : d.id = req[r].target =>
                \E e \in docs' : e.id = d.id /\ e.items = d.items

\* the stored total_amount of every purchase order is that of its stored items
PoTotalAgrees ==
    kind = "purchaseOrder" =>
        \A d \in docs :
            Exactly(d.total_amount, 0, WholePoTotal(safeParseJson(d.items), Len(safeParseJson(d.items))))

\* C30: a purchase order update without items, or with an empty list of them,
\* leaves the stored items unchanged, and the stored total_amount is the sum of
\* quantity * procurementPrice over the stored items
C30_PoItemsAndTotal == []PoTotalAgrees /\ [][PoItemsKept]_vars

====
